---- MODULE Spec2Model ----
(***************************************************************************)
(* The buddy heap allocator of lib/sos_alloc/src/buddy/mod.rs.             *)
(*                                                                         *)
(* Addresses are integers.  An Option<&mut Free> and a RawLink<Free> are   *)
(* one machine word whose null value is None, so both are modelled by an   *)
(* address with 0 standing for None.  An Option<*mut u8> or Option<usize>  *)
(* has a separate tag and is modelled by a record [some, val].             *)
(*                                                                         *)
(* The source holds the free list, the constructor and the size and order  *)
(* computations.  The power-of-two helpers (mod math), allocate and        *)
(* deallocate are not in the source file and are written from the design   *)
(* document, on top of the source's push, pop and remove.                  *)
(***************************************************************************)
EXTENDS Integers, Sequences, FiniteSets, TLC

\* ::PAGE_SIZE, the 4k boundary of the constructor's alignment assertion.
PAGE_SIZE == 4096

\* mem::size_of::<Free>(): one RawLink, a raw pointer of a 64-bit target.
SizeOfFree == 8

\* Largest number of free lists handed to the constructor.
MaxLists == 5

\* Largest number of free lists of an allocator whose heap is put to use.
MaxSeededLists == 3

\* The count of allocate and deallocate calls saturates here.
CallCap == 3

\* Most allocations outstanding at once.
MaxLive == 3

\* Constructor inputs: a null, a misaligned and a page-aligned base; heap
\* sizes too small for a header, not a power of two, and powers of two.
StartAddrs == {0, 2048, 4096}
ListCounts == 0 .. MaxLists
HeapSizes  == {16, 192, 256, 1024}
SeededHeapSizes == {192, 256}

\* Request inputs of the pure queries.
Sizes  == {0, 64, 100, 256, 512, 1000}
Aligns == {0, 3, 8, 128, 4096, 8192}

\* Largest length field of a free list exercised on its own.
MaxLength == 4

\* Block addresses pushed on a free list exercised on its own.
ListAddrs == {4096, 4160, 4224}

\* Request inputs of allocate.
AllocSizes  == {64, 100, 256, 1000}
AllocAligns == {3, 8, 128}

VARIABLES
    args,            \* the inputs new() was called with
    status,          \* "ok", "panic" (an assert! of new failed), "fault", "hang"
    start_addr,      \* BuddyHeapAllocator.start_addr
    heap_size,       \* BuddyHeapAllocator.heap_size
    min_block_size,  \* BuddyHeapAllocator.min_block_size
    free_lists,      \* BuddyHeapAllocator.free_lists: 0..n-1 -> FreeList
    mem,             \* the Free headers in memory: address -> next link
    live,            \* the allocations handed out and not yet deallocated
    last,            \* the latest call and what it returned
    prev,            \* what the call before the latest allocate or deallocate was
    ncalls,          \* number of allocate and deallocate calls so far
    phase            \* "fresh", "alloc", "free" or "other": shape of the call history

vars == <<args, status, start_addr, heap_size, min_block_size, free_lists,
          mem, live, last, prev, ncalls, phase>>

-----------------------------------------------------------------------------
\* Option<T> with its own tag.
None    == [some |-> FALSE, val |-> 0]
Some(x) == [some |-> TRUE, val |-> x]

\* cmp::max, cmp::min and the max! macro of three arguments.
max(a, b) == IF a >= b THEN a ELSE b
min(a, b) == IF a <= b THEN a ELSE b
max3(a, b, c) == max(a, max(b, c))

-----------------------------------------------------------------------------
\* mod math (PowersOf2Ext), from the design document section 4.1.

RECURSIVE pow2_from(_, _)
pow2_from(p, x) == IF p >= x THEN p ELSE pow2_from(2 * p, x)

\* power-of-two test
is_pow2(x) == x > 0 /\ pow2_from(1, x) = x

\* smallest power of two >= x, defined for x >= 1
next_pow2(x) == pow2_from(1, x)

RECURSIVE log2(_)
\* base-2 logarithm, exact on powers of two (rounded down elsewhere)
log2(x) == IF x <= 1 THEN 0 ELSE 1 + log2(x \div 2)

-----------------------------------------------------------------------------
\* FreeList

\* FreeList::new
FreeListNew == [head |-> 0, length |-> 0]

\* Memory after a header with the given link is written at address a.
write(m, a, link) == [x \in (DOMAIN m) \cup {a} |-> IF x = a THEN link ELSE m[x]]

\* push that writes an empty header instead of linking to the old head.
push_no_link(fl, m, block) ==
    [list |-> [head |-> block, length |-> fl.length + 1],
     mem  |-> write(m, block, 0)]

\* FreeList::push: the block's header links to the old head, the block
\* becomes the head, length grows by one.
push(fl, m, block) ==
    [list |-> [head |-> block, length |-> fl.length + 1],
     mem  |-> write(m, block, fl.head)]

\* pop that finds nothing in a list of one block.
pop_last_none(fl, m) ==
    IF fl.head = 0 \/ m[fl.head] = 0
    THEN [list |-> fl, ret |-> None]
    ELSE [list |-> [fl EXCEPT !.head = m[fl.head]], ret |-> Some(0)]

\* pop that counts a block out of length even when the list is empty.
pop_empty_len(fl, m) ==
    IF fl.head = 0
    THEN [list |-> [fl EXCEPT !.length = fl.length - 1], ret |-> None]
    ELSE [list |-> [fl EXCEPT !.head = m[fl.head]], ret |-> Some(0)]

\* FreeList::pop: head.take() leaves None in self.head, so the mem::replace
\* that installs the successor hands back None, and the transmute of that
\* None is the null pointer: a non-empty list yields Some(null).  length is
\* not touched.
pop(fl, m) ==
    IF fl.head = 0
    THEN [list |-> fl, ret |-> None]
    ELSE [list |-> [fl EXCEPT !.head = m[fl.head]], ret |-> Some(0)]

RECURSIVE walk(_, _, _)
\* FreeListIter::next / FreeListIterMut::next, run for at most `fuel` steps:
\* the addresses yielded, in order.
walk(cur, m, fuel) ==
    IF cur = 0 \/ fuel = 0 THEN <<>> ELSE <<cur>> \o walk(m[cur], m, fuel - 1)

\* FreeList::iter: the blocks of the list, head first (a cycle is cut
\* after every written header has been visited once).
iter(fl, m) == walk(fl.head, m, Cardinality(DOMAIN m))

Range(s) == {s[i] : i \in 1 .. Len(s)}

\* The walk from the head never reaches None.
cyclic(fl, m) ==
    LET s == walk(fl.head, m, Cardinality(DOMAIN m) + 1)
    IN  Len(s) > Cardinality(DOMAIN m)

\* remove that counts the block out of length whether or not it found it.
remove_len(fl, m, target) ==
    IF target \in Range(iter(fl, m))
    THEN [list |-> [fl EXCEPT !.length = fl.length - 1],
          mem |-> write(m, target, m[target]), ret |-> TRUE, hang |-> FALSE]
    ELSE [list |-> [fl EXCEPT !.length = fl.length - 1],
          mem |-> m, ret |-> FALSE, hang |-> cyclic(fl, m)]

\* FreeList::remove: scans with iter_mut; on the target it takes the
\* block's link and writes it straight back, and returns true.  Nothing is
\* unlinked and length is not touched.  A scan of a cyclic list for a block
\* that is not in it does not return.
remove(fl, m, target) ==
    IF target \in Range(iter(fl, m))
    THEN [list |-> fl, mem |-> write(m, target, m[target]), ret |-> TRUE, hang |-> FALSE]
    ELSE [list |-> fl, mem |-> m, ret |-> FALSE, hang |-> cyclic(fl, m)]

-----------------------------------------------------------------------------
\* BuddyHeapAllocator

\* The assert!s of BuddyHeapAllocator::new.
new_accepts(s, n, h) ==
    /\ s # 0
    /\ n > 0
    /\ s % PAGE_SIZE = 0
    /\ h >= h \div (2 ^ (n - 1))
    /\ h \div (2 ^ (n - 1)) >= SizeOfFree

\* alloc_size with the minimum block size left out of the maximum.
alloc_size_no_min(size, align) ==
    IF ~ is_pow2(align) \/ align > PAGE_SIZE
    THEN None
    ELSE LET s == next_pow2(max(size, align))
         IN  IF s > heap_size THEN None ELSE Some(s)

\* alloc_size rejecting an alignment only when it fails both tests.
alloc_size_and(size, align) ==
    IF ~ is_pow2(align) /\ align > PAGE_SIZE
    THEN None
    ELSE LET s == next_pow2(max3(size, min_block_size, align))
         IN  IF s > heap_size THEN None ELSE Some(s)

\* BuddyHeapAllocator::alloc_size
alloc_size(size, align) ==
    IF ~ is_pow2(align) \/ align > PAGE_SIZE
    THEN None
    ELSE LET s == next_pow2(max3(size, min_block_size, align))
         IN  IF s > heap_size THEN None ELSE Some(s)

\* BuddyHeapAllocator::alloc_order
alloc_order(size, align) ==
    LET s == alloc_size(size, align)
    IN  IF s.some THEN Some(log2(s.val) - log2(min_block_size)) ELSE None

nlists == Cardinality(DOMAIN free_lists)

Call(op, size, align, addr, order, ret, err) ==
    [op |-> op, size |-> size, align |-> align, addr |-> addr, order |-> order,
     ret |-> ret, err |-> err]

\* The request of call c is one whose computed size is the whole heap.
full(c) == alloc_size(c.size, c.align) = Some(heap_size)

\* What is kept of a call once the next allocate or deallocate is made.
summary(c) == [op |-> c.op, full |-> c.op = "allocate" /\ full(c)]

\* The state new() leaves behind when handed the free lists fls, whose
\* blocks' headers are in memory m.  A failed assert! returns no allocator.
constructed(s, n, h, fls, m) ==
    /\ args = [start |-> s, n |-> n, heap_size |-> h]
    /\ live = << >>
    /\ last = Call("new", 0, 0, 0, 0, None, "")
    /\ prev = [op |-> "none", full |-> FALSE]
    /\ ncalls = 0
    /\ phase = "fresh"
    /\ IF new_accepts(s, n, h)
       THEN /\ status = "ok"
            /\ start_addr = s
            /\ heap_size = h
            /\ min_block_size = h \div (2 ^ (n - 1))
            /\ free_lists = fls
            /\ mem = m
       ELSE /\ status = "panic"
            /\ start_addr = 0
            /\ heap_size = 0
            /\ min_block_size = 0
            /\ free_lists = [i \in 0 .. n - 1 |-> FreeListNew]
            /\ mem = << >>

\* BuddyHeapAllocator::new: the allocator holds the caller's empty free
\* lists as they are; the first block is not put on any list (the TODO).
new(s, n, h) ==
    constructed(s, n, h, [i \in 0 .. n - 1 |-> FreeListNew], << >>)

\* The constructor of the design document, section 4.3: new() followed by
\* the push of the whole heap onto the top-order free list.
new_seeded(s, n, h) ==
    LET top == push(FreeListNew, << >>, s)
    IN  constructed(s, n, h,
                    [i \in 0 .. n - 1 |-> IF i = n - 1 THEN top.list ELSE FreeListNew],
                    top.mem)

Init == \E s \in StartAddrs, n \in ListCounts, h \in HeapSizes : new(s, n, h)

InitSeeded ==
    \E s \in StartAddrs, n \in 1 .. MaxSeededLists, h \in SeededHeapSizes :
        new_seeded(s, n, h)

\* Size of a block of order k.
order_size(k) == min_block_size * (2 ^ k)

\* The address lies in the managed region.
in_heap(a) == start_addr <= a /\ a < start_addr + heap_size

\* A call of the pure query alloc_size.
AllocSizeCall ==
    /\ status = "ok"
    /\ \E size \in Sizes, align \in Aligns :
         last' = Call("alloc_size", size, align, 0, 0, alloc_size(size, align), "")
    /\ UNCHANGED <<args, status, start_addr, heap_size, min_block_size,
                   free_lists, mem, live, prev, ncalls, phase>>

\* A call of the pure query alloc_order.
AllocOrderCall ==
    /\ status = "ok"
    /\ \E size \in Sizes, align \in Aligns :
         last' = Call("alloc_order", size, align, 0, 0, alloc_order(size, align), "")
    /\ UNCHANGED <<args, status, start_addr, heap_size, min_block_size,
                   free_lists, mem, live, prev, ncalls, phase>>

-----------------------------------------------------------------------------
\* allocate and deallocate, from the design document section 4.3.

\* The first order >= k whose free list pops a block, or -1.
first_nonempty(k) ==
    LET S == {j \in k .. nlists - 1 : pop(free_lists[j], mem).ret.some}
    IN  IF S = {} THEN -1 ELSE CHOOSE j \in S : \A i \in S : j <= i

RECURSIVE split(_, _, _, _, _)
\* Split the block of order i down to order k: the upper half of each split
\* is pushed on the list one order down, the lower half is split further.
split(fls, m, block, i, k) ==
    IF i <= k
    THEN [lists |-> fls, mem |-> m]
    ELSE LET upper == block + order_size(i - 1)
             p == push(fls[i - 1], m, upper)
         IN  split([fls EXCEPT ![i - 1] = p.list], p.mem, block, i - 1, k)

\* The lists after pop has been called on those of orders lo..hi.
scanned(lo, hi) ==
    [i \in DOMAIN free_lists |->
        IF lo <= i /\ i <= hi THEN pop(free_lists[i], mem).list ELSE free_lists[i]]

\* allocate(size, align): the lists and memory it leaves, the address or
\* the failure it returns, and the addresses it wrote headers to.  The
\* scan pops each list from the target order up until one yields a block.
allocate(size, align) ==
    LET o == alloc_order(size, align)
        failed(fls, err) == [lists |-> fls, mem |-> mem, ret |-> None,
                             err |-> err, order |-> 0, writes |-> {}]
    IN  IF ~ o.some THEN failed(free_lists, "invalid request")
        ELSE LET k == o.val
                 j == first_nonempty(k)
             IN  IF j = -1 THEN failed(scanned(k, nlists - 1), "out of memory")
                 ELSE LET p == pop(free_lists[j], mem)
                          block == p.ret.val
                          s == split(scanned(k, j), mem, block, j, k)
                      IN  [lists |-> s.lists, mem |-> s.mem, ret |-> Some(block),
                           err |-> "", order |-> k,
                           writes |-> {block + order_size(i - 1) : i \in k + 1 .. j}]

\* The buddy of the block at addr of the given order: the offset from the
\* start of the heap with the block-size bit flipped.
buddy(addr, order) ==
    LET s == order_size(order)
        off == addr - start_addr
    IN  start_addr + (IF (off \div s) % 2 = 0 THEN off + s ELSE off - s)

RECURSIVE coalesce(_, _, _, _, _)
\* deallocate's loop: while the buddy is removed from the current order's
\* list, merge and go one order up; push the block where that stops.
coalesce(fls, m, addr, order, merges) ==
    LET b == buddy(addr, order)
        r == remove(fls[order], m, b)
    IN  IF order < nlists - 1 /\ r.hang
        THEN [lists |-> fls, mem |-> m, hang |-> TRUE, pushed |-> addr,
              order |-> order, merges |-> merges]
        ELSE IF order < nlists - 1 /\ r.ret
        THEN coalesce([fls EXCEPT ![order] = r.list], r.mem, min(addr, b),
                      order + 1, merges + 1)
        ELSE LET p == push(fls[order], m, addr)
             IN  [lists |-> [fls EXCEPT ![order] = p.list], mem |-> p.mem,
                  hang |-> FALSE, pushed |-> addr, order |-> order,
                  merges |-> merges]

\* deallocate(addr, order)
deallocate(addr, order) == coalesce(free_lists, mem, addr, order, 0)

without(s, i) == [x \in 1 .. Len(s) - 1 |-> IF x < i THEN s[x] ELSE s[x + 1]]

bump(n) == min(n + 1, CallCap)

\* A call of allocate that returns.
Allocate ==
    /\ status = "ok"
    /\ \E size \in AllocSizes, align \in AllocAligns :
         LET r == allocate(size, align)
         IN  /\ r.ret.some => Len(live) < MaxLive
             /\ free_lists' = r.lists
             /\ mem' = r.mem
             /\ live' = IF r.ret.some
                        THEN Append(live, [addr |-> r.ret.val, order |-> r.order])
                        ELSE live
             /\ last' = Call("allocate", size, align, 0, 0, r.ret, r.err)
             /\ phase' = IF ~ r.ret.some THEN phase
                         ELSE IF phase \in {"fresh", "alloc"} THEN "alloc"
                         ELSE "other"
    /\ ncalls' = bump(ncalls)
    /\ prev' = summary(last)
    /\ UNCHANGED <<args, status, start_addr, heap_size, min_block_size>>

\* A call of allocate whose split writes a header outside the managed
\* region, and the write traps.
AllocateFault ==
    /\ status = "ok"
    /\ \E size \in AllocSizes, align \in AllocAligns :
         LET r == allocate(size, align)
         IN  /\ \E a \in r.writes : ~ in_heap(a)
             /\ last' = Call("allocate", size, align, 0, 0, None, "fault")
    /\ status' = "fault"
    /\ ncalls' = bump(ncalls)
    /\ prev' = summary(last)
    /\ UNCHANGED <<args, start_addr, heap_size, min_block_size, free_lists,
                   mem, live, phase>>

\* A call of deallocate on a live allocation.
Deallocate ==
    /\ status = "ok"
    /\ \E i \in 1 .. Len(live) :
         LET r == deallocate(live[i].addr, live[i].order)
         IN  /\ status' = IF r.hang THEN "hang" ELSE "ok"
             /\ free_lists' = r.lists
             /\ mem' = r.mem
             /\ live' = without(live, i)
             /\ last' = Call("deallocate", 0, 0, live[i].addr, live[i].order, None, "")
             /\ phase' = IF i = 1 /\ phase \in {"alloc", "free"} THEN "free"
                         ELSE "other"
    /\ ncalls' = bump(ncalls)
    /\ prev' = summary(last)
    /\ UNCHANGED <<args, start_addr, heap_size, min_block_size>>

\* A call of deallocate whose push writes a header outside the managed
\* region, and the write traps.
DeallocateFault ==
    /\ status = "ok"
    /\ \E i \in 1 .. Len(live) :
         LET r == deallocate(live[i].addr, live[i].order)
         IN  /\ ~ r.hang
             /\ ~ in_heap(r.pushed)
             /\ last' = Call("deallocate", 0, 0, live[i].addr, live[i].order, None, "fault")
    /\ status' = "fault"
    /\ ncalls' = bump(ncalls)
    /\ prev' = summary(last)
    /\ UNCHANGED <<args, start_addr, heap_size, min_block_size, free_lists,
                   mem, live, phase>>

\* The allocator as the source constructs it.
Next == AllocSizeCall \/ AllocOrderCall \/ Allocate

Spec == Init /\ [][Next]_vars

\* The allocator constructed as the design document says, its first block
\* on the top-order list.
NextSeeded ==
    \/ Allocate
    \/ AllocateFault
    \/ Deallocate
    \/ DeallocateFault

SpecSeeded == InitSeeded /\ [][NextSeeded]_vars

-----------------------------------------------------------------------------
\* A FreeList on its own: free_lists holds the one list, mem its blocks'
\* headers, live the blocks pushed so far in order while nothing but push
\* has been called, phase whether that is so ("fresh", "pushes", "other"),
\* last the latest call.  The allocator's fields are not used.

ListCall(op, addr, ret, found, yields) ==
    [op |-> op, addr |-> addr, ret |-> ret, found |-> found, yields |-> yields]

\* The one list.
the_list == free_lists[0]

InitList ==
    /\ args = [start |-> 0, n |-> 1, heap_size |-> 0]
    /\ status = "ok"
    /\ start_addr = 0
    /\ heap_size = 0
    /\ min_block_size = 0
    /\ free_lists = [i \in {0} |-> FreeListNew]
    /\ mem = << >>
    /\ live = << >>
    /\ last = ListCall("new", 0, None, FALSE, << >>)
    /\ prev = [op |-> "none", full |-> FALSE]
    /\ ncalls = 0
    /\ phase = "fresh"

list_frame == <<args, start_addr, heap_size, min_block_size, prev, ncalls>>

\* push(block) of a block that is not in the list.
ListPush ==
    /\ status = "ok"
    /\ the_list.length < MaxLength
    /\ \E block \in ListAddrs :
         LET r == push(the_list, mem, block)
         IN  /\ block \notin Range(iter(the_list, mem))
             /\ free_lists' = [free_lists EXCEPT ![0] = r.list]
             /\ mem' = r.mem
             /\ last' = ListCall("push", block, None, FALSE, << >>)
             /\ live' = IF phase \in {"fresh", "pushes"} THEN Append(live, block)
                        ELSE << >>
             /\ phase' = IF phase \in {"fresh", "pushes"} THEN "pushes" ELSE "other"
    /\ UNCHANGED <<status, list_frame>>

\* pop()
ListPop ==
    /\ status = "ok"
    /\ LET r == pop(the_list, mem)
       IN  /\ free_lists' = [free_lists EXCEPT ![0] = r.list]
           /\ last' = ListCall("pop", 0, r.ret, FALSE, << >>)
    /\ live' = << >>
    /\ phase' = "other"
    /\ UNCHANGED <<status, mem, list_frame>>

\* remove(target)
ListRemove ==
    /\ \E target \in ListAddrs :
         LET r == remove(the_list, mem, target)
         IN  /\ status = "ok"
             /\ status' = IF r.hang THEN "hang" ELSE "ok"
             /\ free_lists' = [free_lists EXCEPT ![0] = r.list]
             /\ mem' = r.mem
             /\ last' = ListCall("remove", target, None, r.ret, << >>)
    /\ live' = << >>
    /\ phase' = "other"
    /\ UNCHANGED list_frame

\* iter(), run to its end.
ListIter ==
    /\ status = "ok"
    /\ ~ cyclic(the_list, mem)
    /\ last' = ListCall("iter", 0, None, FALSE, iter(the_list, mem))
    /\ UNCHANGED <<status, free_lists, mem, live, phase, list_frame>>

NextList == ListPush \/ ListPop \/ ListRemove \/ ListIter

SpecList == InitList /\ [][NextList]_vars

-----------------------------------------------------------------------------
\* Properties

\* The claims' own terms, stated without the helpers of the code.
IsPowerOfTwo(x) == \E e \in 0 .. 16 : x = 2 ^ e
PowerOfTwoAtLeast(x) ==
    CHOOSE p \in {2 ^ e : e \in 0 .. 16} :
        p >= x /\ \A q \in {2 ^ e : e \in 0 .. 16} : q >= x => p <= q

\* The blocks of the free list of order k, head first.
blocks(k) == iter(free_lists[k], mem)

top == nlists - 1

\* The top-order list holds exactly one block and every other list is empty.
TopOnly ==
    /\ Len(blocks(top)) = 1
    /\ \A k \in 0 .. top - 1 : blocks(k) = << >>

\* How many free-list entries and live allocations cover byte b.
coverage(b) ==
    Cardinality({<<k, i>> \in (0 .. top) \X (1 .. Cardinality(DOMAIN mem)) :
                    /\ i <= Len(blocks(k))
                    /\ blocks(k)[i] <= b
                    /\ b < blocks(k)[i] + order_size(k)})
    + Cardinality({i \in 1 .. Len(live) :
                    /\ live[i].addr <= b
                    /\ b < live[i].addr + order_size(live[i].order)})

\* Every free block and every live allocation lies in the heap.
AllInHeap ==
    /\ \A k \in 0 .. top : \A i \in 1 .. Len(blocks(k)) :
         in_heap(blocks(k)[i]) /\ blocks(k)[i] + order_size(k) <= start_addr + heap_size
    /\ \A i \in 1 .. Len(live) :
         in_heap(live[i].addr)
         /\ live[i].addr + order_size(live[i].order) <= start_addr + heap_size

\* C1: in every reachable state the free blocks and the live allocations
\* cover the heap [start, start+heap_size) exactly: every byte is covered
\* once, nothing is covered twice, no two live allocations overlap.
C1_Tiling ==
    status = "ok" =>
        /\ AllInHeap
        /\ \A b \in start_addr .. start_addr + heap_size - 1 : coverage(b) = 1

\* C2: right after new returns, the top-order free list holds exactly one
\* block, at start_addr, and every lower-order list is empty.
C2_FreshSeeded ==
    (status = "ok" /\ last.op = "new") =>
        /\ blocks(top) = <<start_addr>>
        /\ \A k \in 0 .. top - 1 : blocks(k) = << >>

\* C3: from a fresh allocator, successful allocate calls followed by the
\* deallocate calls of those blocks in the same order, with no allocation
\* in between, end with one block in the top-order list and nothing else.
C3_RoundTrip ==
    (status = "ok" /\ phase \in {"fresh", "free"} /\ live = << >>) => TopOnly

\* C10: on a fresh allocator the first allocate whose computed size is
\* heap_size returns start_addr, and a second such allocate right after it
\* fails with out of memory.
C10_FullHeapOnce ==
    (status = "ok" /\ last.op = "allocate" /\ full(last)) =>
        /\ ncalls = 1 => last.ret = Some(start_addr)
        /\ (ncalls = 2 /\ prev.op = "allocate" /\ prev.full) =>
               (~ last.ret.some /\ last.err = "out of memory")

C7_AllocSize ==
    (status = "ok" /\ last.op = "alloc_size") =>
        LET p == PowerOfTwoAtLeast(max3(last.size, min_block_size, last.align))
        IN  IF ~ IsPowerOfTwo(last.align) \/ last.align > PAGE_SIZE
            THEN ~ last.ret.some
            ELSE IF p > heap_size
            THEN ~ last.ret.some
            ELSE /\ last.ret = Some(p)
                 /\ IsPowerOfTwo(last.ret.val)
                 /\ min_block_size <= last.ret.val
                 /\ last.ret.val <= heap_size

\* alloc_size has returned a size that rounds the request up, below the
\* heap size and above the minimum block size.
C7_Witness ==
    /\ status = "ok"
    /\ last.op = "alloc_size"
    /\ last.ret.some
    /\ last.ret.val > last.size
    /\ last.ret.val > min_block_size
    /\ last.ret.val < heap_size

\* The request of call c has a valid alignment and a computed size above
\* the heap size.
exceeds_heap(c) ==
    /\ IsPowerOfTwo(c.align)
    /\ c.align <= PAGE_SIZE
    /\ PowerOfTwoAtLeast(max3(c.size, min_block_size, c.align)) > heap_size

\* C8 as amended: a request whose alignment is not a power of two gets None
\* from alloc_size and from alloc_order whatever its size, and a well-formed
\* request whose computed size is above the heap size gets the same None.
C8_BadAlignIsNone ==
    (status = "ok" /\ last.op \in {"alloc_size", "alloc_order"}) =>
        /\ ~ IsPowerOfTwo(last.align) => last.ret = None
        /\ exceeds_heap(last) => last.ret = None

\* alloc_size has been called with align = 3 and a size that fits the heap.
C8_Witness ==
    /\ status = "ok"
    /\ last.op = "alloc_size"
    /\ last.align = 3
    /\ last.size <= heap_size
    /\ last.ret = None

\* C8: a request whose alignment is not a power of two fails for every
\* size, and the caller can tell that outcome from the outcome of a
\* well-formed request that exceeds the heap.
C8_Distinguishable ==
    (status = "ok" /\ last.op \in {"alloc_size", "alloc_order"}) =>
        /\ ~ IsPowerOfTwo(last.align) => last.ret = None
        /\ exceeds_heap(last) => last.ret # alloc_size(last.size, 3)

\* C9: whenever alloc_size returns a size s, alloc_order returns an order k
\* with 0 <= k < n and min_block_size << k = s, and it is absent exactly
\* when alloc_size is absent; with heap size 1024 and min_block_size 64,
\* (64, 8) gives order 0 and (100, 8) gives order 1.
C9_OrderOfSize ==
    (status = "ok" /\ last.op = "alloc_order") =>
        LET s == alloc_size(last.size, last.align)
        IN  /\ last.ret.some <=> s.some
            /\ s.some =>
                 /\ 0 <= last.ret.val
                 /\ last.ret.val < nlists
                 /\ min_block_size * (2 ^ last.ret.val) = s.val
            /\ (heap_size = 1024 /\ min_block_size = 64 /\ last.align = 8) =>
                 /\ last.size = 64 => last.ret = Some(0)
                 /\ last.size = 100 => last.ret = Some(1)

\* The entries of all free lists: <<order, position, address>>.
entries ==
    {<<k, i, blocks(k)[i]>> : <<k, i>> \in
        {x \in (0 .. top) \X (1 .. Cardinality(DOMAIN mem)) : x[2] <= Len(blocks(x[1]))}}

\* C4: once allocate or deallocate has returned, no free list below the top
\* order holds both a block and the buddy of that block.
C4_NoFreeBuddies ==
    (status = "ok" /\ last.op \in {"allocate", "deallocate"}) =>
        \A k \in 0 .. top - 1 : \A i \in 1 .. Len(blocks(k)) :
            buddy(blocks(k)[i], k) \notin Range(blocks(k))

\* The address is a block of the heap of order k.
heap_block(a, k) ==
    /\ in_heap(a)
    /\ (a - start_addr) % order_size(k) = 0
    /\ a + order_size(k) <= start_addr + heap_size

C11_RemoveMissing ==
    [][(last'.op = "remove" /\ last'.addr \notin Range(iter(the_list, mem))) =>
          /\ ~ last'.found
          /\ free_lists' = free_lists
          /\ mem' = mem]_vars

\* remove has missed its target in a list of two or more blocks.
C11_Witness ==
    /\ last.op = "remove"
    /\ ~ last.found
    /\ last.addr \notin Range(iter(the_list, mem))
    /\ Len(iter(the_list, mem)) >= 2

C13_NewRejects ==
    /\ (\/ args.start = 0
        \/ args.n = 0
        \/ args.start % PAGE_SIZE # 0
        \/ args.heap_size \div (2 ^ (args.n - 1)) < SizeOfFree
        \/ ~ IsPowerOfTwo(args.heap_size)) => status = "panic"
    /\ status # "panic" =>
          /\ IsPowerOfTwo(heap_size)
          /\ heap_size = min_block_size * 2 ^ (nlists - 1)

\* C14: pop on a non-empty list returns the address of the head block and
\* makes that block's successor the new head; on an empty list it returns
\* None and changes nothing.  So push(a) then pop() returns a.
C14_PopReturnsHead ==
    [][last'.op = "pop" =>
          IF the_list.head = 0
          THEN /\ last'.ret = None
               /\ free_lists' = free_lists
               /\ mem' = mem
          ELSE /\ last'.ret = Some(the_list.head)
               /\ the_list'.head = mem[the_list.head]
               /\ (last.op = "push" => last'.ret = Some(last.addr))]_vars

\* The sequence s with every occurrence of x left out.
except(s, x) == SelectSeq(s, LAMBDA y : y # x)

\* C15: remove(target) of an address that is in the list returns true, and
\* afterwards iteration from the head no longer reaches target while the
\* other blocks are reached in the same relative order, whether target is
\* the head, an interior block or the last block.
C15_RemoveUnlinks ==
    [][(last'.op = "remove" /\ last'.addr \in Range(iter(the_list, mem))) =>
          /\ last'.found
          /\ status' = "ok"
          /\ last'.addr \notin Range(iter(free_lists'[0], mem'))
          /\ iter(free_lists'[0], mem') = except(iter(the_list, mem), last'.addr)]_vars

\* C16: after any pushes of absent addresses, pops and removes, length is
\* the number of blocks reachable from head along the next links.
C16_LengthIsCount ==
    the_list.length = Len(iter(the_list, mem))

reverse(s) == [i \in 1 .. Len(s) |-> s[Len(s) + 1 - i]]

\* C17: iterating a list built by pushing distinct addresses a1..am, and
\* nothing else, ends after yielding exactly the m blocks am, ..., a1, and
\* leaves the list as it was, so that iterating again yields the same.
C17_IterIsStack ==
    phase = "pushes" =>
        /\ ~ cyclic(the_list, mem)
        /\ iter(the_list, mem) = reverse(live)
        /\ last.op = "iter" =>
              /\ last.yields = reverse(live)
              /\ Len(last.yields) = Len(live)

\* Three distinct addresses have been pushed and the list has been iterated.
C17_Witness ==
    /\ phase = "pushes"
    /\ last.op = "iter"
    /\ Len(live) = 3
    /\ Len(last.yields) = 3

blocks_after(k) == iter(free_lists'[k], mem')

enclosing(a, i) ==
    start_addr + ((a - start_addr) \div order_size(i)) * order_size(i)

====
